---- MODULE Spec2Model ----
(***************************************************************************)
(* Model of liblightorama's message encoder (src/io.c).                    *)
(*                                                                         *)
(* A caller owns one buffer of BufLen bytes and appends encoded messages   *)
(* to it: every call receives the cursor (the sum of the lengths returned  *)
(* so far) and returns the number of bytes it wrote.  Each writer of io.c  *)
(* is an operator from (arguments, buffer, ptr) to the buffer after the    *)
(* call and the returned length n, written store by store as in the code.  *)
(***************************************************************************)
EXTENDS Integers, Sequences, FiniteSets, TLC

VARIABLES buf, cursor, hist

vars == <<buf, cursor, hist>>

(***************************************************************************)
(* Bounds of the model.                                                    *)
(***************************************************************************)
\* Size of the caller's buffer.
BufLen == 16

(***************************************************************************)
(* Protocol constants (include/protocol.h, not part of src/).              *)
(***************************************************************************)
LOR_UNIT_ID_BROADCAST == 255
LOR_MAGIC_AND == 129
LOR_MAGIC_HEARTBEAT == 86
LOR_MAGIC_CHANNEL_ID_MASK == 128
LOR_ACTION_CHANNEL_SET_BRIGHTNESS == 3
LOR_ACTION_CHANNEL_FADE == 4

\* README: "even the largest write call will not write more than 13 bytes";
\* the caller keeps that much room before every call.
MaxWrite == 13

(***************************************************************************)
(* C integer operations.                                                   *)
(***************************************************************************)
RECURSIVE BitAnd(_, _)
BitAnd(a, b) ==
    IF a = 0 \/ b = 0 THEN 0
    ELSE (a % 2) * (b % 2) + 2 * BitAnd(a \div 2, b \div 2)

RECURSIVE BitOr(_, _)
BitOr(a, b) ==
    IF a = 0 THEN b
    ELSE IF b = 0 THEN a
    ELSE (IF a % 2 = 1 \/ b % 2 = 1 THEN 1 ELSE 0) + 2 * BitOr(a \div 2, b \div 2)

\* x >> 8u
Shr8(x) == x \div 256

\* ptr[i] = b : a store into an unsigned char keeps the low 8 bits.
Put(b, i, v) == IF i \in DOMAIN b THEN [b EXCEPT ![i] = v % 256] ELSE b

(***************************************************************************)
(* Input domains.                                                          *)
(***************************************************************************)
Units == {1, LOR_UNIT_ID_BROADCAST}
UnitActions == {65, 80}
ChannelActions == {1, 6}
Brightnesses == {1, 240}
Durations == {258}
DurationsDirect == {0, 255, 258, 65280, 65535}
ChainIndexes == {0, 2}
ChannelTypes == {"LOR_CHANNEL_ID", "LOR_CHANNEL_MASK8", "LOR_CHANNEL_MASK16"}

ChannelBits(type) ==
    CASE type = "LOR_CHANNEL_ID" -> {7}
      [] type = "LOR_CHANNEL_MASK8" -> {15}
      [] type = "LOR_CHANNEL_MASK16" -> {258, 65280}

\* LORChannel { type, bits, chain_index }
Channels ==
    UNION {[type : {t}, bits : ChannelBits(t), chain_index : ChainIndexes] : t \in ChannelTypes}

NoChannel == [type |-> "none", bits |-> 0, chain_index |-> 0]

\* The caller's buffer before the first call: it is not initialised, and
\* holds a different byte at every position.
InitBuf == [i \in 0 .. BufLen - 1 |-> (160 + 7 * i) % 256]

(***************************************************************************)
(* protocol.c (not part of src/): the action-byte tag bits of a channel    *)
(* depend on its variant only.                                             *)
(***************************************************************************)
lor_get_channel_magic(channel) ==
    CASE channel.type = "LOR_CHANNEL_ID" -> 0
      [] channel.type = "LOR_CHANNEL_MASK8" -> 48
      [] channel.type = "LOR_CHANNEL_MASK16" -> 16
      [] OTHER -> 0

(***************************************************************************)
(* src/io.c.  Every writer returns [buf |-> the buffer after the call,     *)
(* n |-> the returned length]; b0, b1, ... are the buffer after each store *)
(* and n0, n1, ... the value of the local n.                               *)
(***************************************************************************)
lor_write_heartbeat(b, ptr) ==
    LET b0 == Put(b, ptr + 0, LOR_UNIT_ID_BROADCAST)
        b1 == Put(b0, ptr + 1, LOR_MAGIC_AND)
        b2 == Put(b1, ptr + 2, LOR_MAGIC_HEARTBEAT)
    IN  [buf |-> b2, n |-> 3]

\* Mutant: the store is lost, the length is still reported.
lor_write_brightness_NoStore(brightness, b, ptr) ==
    [buf |-> b, n |-> 1]

lor_write_brightness(brightness, b, ptr) ==
    [buf |-> Put(b, ptr + 0, brightness), n |-> 1]

\* Mutant: low byte first.
lor_write_duration_LittleEndian(duration, b, ptr) ==
    LET b0 == Put(b, ptr + 0, BitAnd(duration, 255))
        b1 == Put(b0, ptr + 1, Shr8(BitAnd(duration, 65280)))
    IN  [buf |-> b1, n |-> 2]

lor_write_duration(duration, b, ptr) ==
    LET b0 == Put(b, ptr + 0, Shr8(BitAnd(duration, 65280)))
        b1 == Put(b0, ptr + 1, BitAnd(duration, 255))
    IN  [buf |-> b1, n |-> 2]

\* Mutant: the chain index is never emitted.
lor_write_channel_DropChain(channel, b, ptr) ==
    CASE channel.type = "LOR_CHANNEL_ID" ->
           [buf |-> Put(b, ptr, BitOr(LOR_MAGIC_CHANNEL_ID_MASK, channel.bits)), n |-> 1]
      [] channel.type = "LOR_CHANNEL_MASK8" ->
           [buf |-> Put(b, ptr, channel.bits), n |-> 1]
      [] channel.type = "LOR_CHANNEL_MASK16" ->
           [buf |-> Put(Put(b, ptr, Shr8(BitAnd(channel.bits, 65280))),
                        ptr + 1, BitAnd(channel.bits, 255)),
            n |-> 2]
      [] OTHER -> [buf |-> b, n |-> 0]

\* Mutant: the chain index is emitted after the variant's bytes.
lor_write_channel_ChainLast(channel, b, ptr) ==
    LET p == lor_write_channel_DropChain(channel, b, ptr)
    IN  IF channel.chain_index > 0
        THEN [buf |-> Put(p.buf, ptr + p.n, channel.chain_index), n |-> p.n + 1]
        ELSE p

\* Mutant: a 16-bit mask is emitted low byte first.
lor_write_channel_LittleEndian(channel, b, ptr) ==
    LET chained == channel.chain_index > 0
        b0 == IF chained THEN Put(b, ptr + 0, channel.chain_index) ELSE b
        n0 == IF chained THEN 1 ELSE 0
    IN  CASE channel.type = "LOR_CHANNEL_ID" ->
               [buf |-> Put(b0, ptr + n0, BitOr(LOR_MAGIC_CHANNEL_ID_MASK, channel.bits)),
                n |-> n0 + 1]
          [] channel.type = "LOR_CHANNEL_MASK8" ->
               [buf |-> Put(b0, ptr + n0, channel.bits), n |-> n0 + 1]
          [] channel.type = "LOR_CHANNEL_MASK16" ->
               [buf |-> Put(Put(b0, ptr + n0, BitAnd(channel.bits, 255)),
                            ptr + n0 + 1, Shr8(BitAnd(channel.bits, 65280))),
                n |-> n0 + 2]
          [] OTHER -> [buf |-> b0, n |-> n0]

lor_write_channel(channel, b, ptr) ==
    LET chained == channel.chain_index > 0
        b0 == IF chained THEN Put(b, ptr + 0, channel.chain_index) ELSE b
        n0 == IF chained THEN 1 ELSE 0
    IN  CASE channel.type = "LOR_CHANNEL_ID" ->
               [buf |-> Put(b0, ptr + n0, BitOr(LOR_MAGIC_CHANNEL_ID_MASK, channel.bits)),
                n |-> n0 + 1]
          [] channel.type = "LOR_CHANNEL_MASK8" ->
               [buf |-> Put(b0, ptr + n0, channel.bits), n |-> n0 + 1]
          [] channel.type = "LOR_CHANNEL_MASK16" ->
               [buf |-> Put(Put(b0, ptr + n0, Shr8(BitAnd(channel.bits, 65280))),
                            ptr + n0 + 1, BitAnd(channel.bits, 255)),
                n |-> n0 + 2]
          [] OTHER -> [buf |-> b0, n |-> n0]

lor_write_channel_action(unit, action, channel, b, ptr) ==
    LET b0 == Put(b, ptr + 0, unit)
        b1 == Put(b0, ptr + 1, BitOr(lor_get_channel_magic(channel), action))
        c  == lor_write_channel(channel, b1, ptr + 2)
    IN  [buf |-> c.buf, n |-> 2 + c.n]

\* Mutant: the channel encoding follows the action byte, as in fade_with.
lor_write_channel_fade_ChannelFirst(unit, channel, from, to, duration, b, ptr) ==
    LET b0 == Put(b, ptr + 0, unit)
        b1 == Put(b0, ptr + 1, BitOr(lor_get_channel_magic(channel), LOR_ACTION_CHANNEL_FADE))
        c  == lor_write_channel(channel, b1, ptr + 2)
        n1 == 2 + c.n
        f  == lor_write_brightness(from, c.buf, ptr + n1)
        t  == lor_write_brightness(to, f.buf, ptr + n1 + 1)
        d  == lor_write_duration(duration, t.buf, ptr + n1 + 2)
    IN  [buf |-> d.buf, n |-> n1 + 4]

lor_write_channel_fade(unit, channel, from, to, duration, b, ptr) ==
    LET b0 == Put(b, ptr + 0, unit)
        b1 == Put(b0, ptr + 1, BitOr(lor_get_channel_magic(channel), LOR_ACTION_CHANNEL_FADE))
        n1 == 2
        f  == lor_write_brightness(from, b1, ptr + n1)
        n2 == n1 + f.n
        t  == lor_write_brightness(to, f.buf, ptr + n2)
        n3 == n2 + t.n
        d  == lor_write_duration(duration, t.buf, ptr + n3)
        n4 == n3 + d.n
        c  == lor_write_channel(channel, d.buf, ptr + n4)
    IN  [buf |-> c.buf, n |-> n4 + c.n]

\* Mutant: the channel encoding closes the message, as in fade.
lor_write_channel_fade_with_ChannelLast(unit, foreground_action, channel, from, to, duration, b, ptr) ==
    LET b0 == Put(b, ptr + 0, unit)
        b1 == Put(b0, ptr + 1, BitOr(lor_get_channel_magic(channel), foreground_action))
        b2 == Put(b1, ptr + 2, LOR_MAGIC_AND)
        b3 == Put(b2, ptr + 3, BitOr(lor_get_channel_magic(channel), LOR_ACTION_CHANNEL_FADE))
        f  == lor_write_brightness(from, b3, ptr + 4)
        t  == lor_write_brightness(to, f.buf, ptr + 5)
        d  == lor_write_duration(duration, t.buf, ptr + 6)
        c  == lor_write_channel(channel, d.buf, ptr + 8)
    IN  [buf |-> c.buf, n |-> 8 + c.n]

\* Mutant: the channel encoding is repeated in the fade sub-command.
lor_write_channel_fade_with_ChannelTwice(unit, foreground_action, channel, from, to, duration, b, ptr) ==
    LET b0 == Put(b, ptr + 0, unit)
        b1 == Put(b0, ptr + 1, BitOr(lor_get_channel_magic(channel), foreground_action))
        c  == lor_write_channel(channel, b1, ptr + 2)
        n2 == 2 + c.n
        b2 == Put(c.buf, ptr + n2, LOR_MAGIC_AND)
        b3 == Put(b2, ptr + n2 + 1, BitOr(lor_get_channel_magic(channel), LOR_ACTION_CHANNEL_FADE))
        c2 == lor_write_channel(channel, b3, ptr + n2 + 2)
        n3 == n2 + 2 + c2.n
        f  == lor_write_brightness(from, c2.buf, ptr + n3)
        t  == lor_write_brightness(to, f.buf, ptr + n3 + 1)
        d  == lor_write_duration(duration, t.buf, ptr + n3 + 2)
    IN  [buf |-> d.buf, n |-> n3 + 4]

lor_write_channel_fade_with(unit, foreground_action, channel, from, to, duration, b, ptr) ==
    LET b0 == Put(b, ptr + 0, unit)
        b1 == Put(b0, ptr + 1, BitOr(lor_get_channel_magic(channel), foreground_action))
        n1 == 2
        c  == lor_write_channel(channel, b1, ptr + n1)
        n2 == n1 + c.n
        b2 == Put(c.buf, ptr + n2, LOR_MAGIC_AND)
        b3 == Put(b2, ptr + n2 + 1, BitOr(lor_get_channel_magic(channel), LOR_ACTION_CHANNEL_FADE))
        n3 == n2 + 2
        f  == lor_write_brightness(from, b3, ptr + n3)
        n4 == n3 + f.n
        t  == lor_write_brightness(to, f.buf, ptr + n4)
        n5 == n4 + t.n
        d  == lor_write_duration(duration, t.buf, ptr + n5)
    IN  [buf |-> d.buf, n |-> n5 + d.n]

lor_write_channel_set_brightness(unit, channel, to, b, ptr) ==
    LET b0 == Put(b, ptr + 0, unit)
        b1 == Put(b0, ptr + 1, BitOr(lor_get_channel_magic(channel), LOR_ACTION_CHANNEL_SET_BRIGHTNESS))
        n1 == 2
        t  == lor_write_brightness(to, b1, ptr + n1)
        n2 == n1 + t.n
        c  == lor_write_channel(channel, t.buf, ptr + n2)
    IN  [buf |-> c.buf, n |-> n2 + c.n]

\* Mutant: the two bytes are swapped.
lor_write_unit_action_Swapped(unit, action, b, ptr) ==
    LET b0 == Put(b, ptr + 0, action)
        b1 == Put(b0, ptr + 1, unit)
    IN  [buf |-> b1, n |-> 2]

\* Mutant: the index is advanced before each store (ptr[++n]).
lor_write_unit_action_PreIncrement(unit, action, b, ptr) ==
    LET b0 == Put(b, ptr + 1, unit)
        b1 == Put(b0, ptr + 2, action)
    IN  [buf |-> b1, n |-> 2]

lor_write_unit_action(unit, action, b, ptr) ==
    LET b0 == Put(b, ptr + 0, unit)
        b1 == Put(b0, ptr + 1, action)
    IN  [buf |-> b1, n |-> 2]

(***************************************************************************)
(* The caller.  It passes buf + cursor to a writer, adds the returned      *)
(* length to the cursor, and calls only while MaxWrite bytes are free.     *)
(* hist records every call: the writer, its arguments, the cursor it got,  *)
(* the length it returned and the bytes found at ptr[0 .. n-1] after it.   *)
(***************************************************************************)
\* A position past the end of the buffer holds no byte of it: it reads as -1.
Bytes(b, pos, n) ==
    [k \in 1 .. n |-> IF pos + k - 1 \in DOMAIN b THEN b[pos + k - 1] ELSE -1]

Args(unit, action, channel, from, to, duration) ==
    [unit |-> unit, action |-> action, channel |-> channel,
     from |-> from, to |-> to, duration |-> duration]

CanCall == cursor + MaxWrite <= BufLen

Call(op, a, r) ==
    /\ buf' = r.buf
    /\ cursor' = cursor + r.n
    /\ hist' = Append(hist, [op |-> op, a |-> a, pos |-> cursor, n |-> r.n,
                             msg |-> Bytes(r.buf, cursor, r.n)])

Init ==
    /\ buf = InitBuf
    /\ cursor = 0
    /\ hist = <<>>

Heartbeat ==
    /\ CanCall
    /\ Call("heartbeat", Args(0, 0, NoChannel, 0, 0, 0), lor_write_heartbeat(buf, cursor))

WriteBrightness ==
    /\ CanCall
    /\ \E to \in Brightnesses :
         Call("brightness", Args(0, 0, NoChannel, 0, to, 0),
              lor_write_brightness(to, buf, cursor))

WriteDuration ==
    /\ CanCall
    /\ \E d \in DurationsDirect :
         Call("duration", Args(0, 0, NoChannel, 0, 0, d),
              lor_write_duration(d, buf, cursor))

WriteChannel ==
    /\ CanCall
    /\ \E ch \in Channels :
         Call("channel", Args(0, 0, ch, 0, 0, 0), lor_write_channel(ch, buf, cursor))

ChannelAction ==
    /\ CanCall
    /\ \E u \in Units, act \in ChannelActions, ch \in Channels :
         Call("channel_action", Args(u, act, ch, 0, 0, 0),
              lor_write_channel_action(u, act, ch, buf, cursor))

ChannelFade ==
    /\ CanCall
    /\ \E u \in Units, ch \in Channels, from \in Brightnesses, to \in Brightnesses,
          d \in Durations :
         Call("channel_fade", Args(u, LOR_ACTION_CHANNEL_FADE, ch, from, to, d),
              lor_write_channel_fade(u, ch, from, to, d, buf, cursor))

ChannelFadeWith ==
    /\ CanCall
    /\ \E u \in Units, act \in ChannelActions, ch \in Channels, from \in Brightnesses,
          to \in Brightnesses, d \in Durations :
         Call("channel_fade_with", Args(u, act, ch, from, to, d),
              lor_write_channel_fade_with(u, act, ch, from, to, d, buf, cursor))

ChannelSetBrightness ==
    /\ CanCall
    /\ \E u \in Units, ch \in Channels, to \in Brightnesses :
         Call("channel_set_brightness",
              Args(u, LOR_ACTION_CHANNEL_SET_BRIGHTNESS, ch, 0, to, 0),
              lor_write_channel_set_brightness(u, ch, to, buf, cursor))

UnitAction ==
    /\ CanCall
    /\ \E u \in Units, act \in UnitActions :
         Call("unit_action", Args(u, act, NoChannel, 0, 0, 0),
              lor_write_unit_action(u, act, buf, cursor))

Next ==
    \/ Heartbeat
    \/ WriteBrightness
    \/ WriteDuration
    \/ WriteChannel
    \/ ChannelAction
    \/ ChannelFade
    \/ ChannelFadeWith
    \/ ChannelSetBrightness
    \/ UnitAction

Spec == Init /\ [][Next]_vars

(***************************************************************************)
(* Vocabulary of the properties.                                           *)
(***************************************************************************)
Calls == DOMAIN hist
CallsOf(op) == {i \in Calls : hist[i].op = op}
Composers == {"heartbeat", "unit_action", "channel_action", "channel_set_brightness",
              "channel_fade", "channel_fade_with"}

ZeroBuf == [i \in 0 .. BufLen - 1 |-> 0]

\* The bytes write_channel emits for a channel, as a sequence.
Enc(channel) ==
    LET r == lor_write_channel(channel, ZeroBuf, 0) IN Bytes(r.buf, 0, r.n)

\* The bytes write_duration emits for a tick count, as a sequence.
EncDuration(d) ==
    LET r == lor_write_duration(d, ZeroBuf, 0) IN Bytes(r.buf, 0, r.n)

Chained(channel) == channel.chain_index > 0
IsMask16(channel) == channel.type = "LOR_CHANNEL_MASK16"

\* The messages of calls 1 .. k, one after the other.
RECURSIVE Concat(_)
Concat(k) == IF k = 0 THEN <<>> ELSE Concat(k - 1) \o hist[k].msg

RECURSIVE SumN(_)
SumN(k) == IF k = 0 THEN 0 ELSE SumN(k - 1) + hist[k].n

(***************************************************************************)
(* C1: write_channel_fade_with writes unit, (channel_magic | fg_action),   *)
(* the channel encoding, the AND magic, (channel_magic | FADE), from, to,  *)
(* duration high byte, duration low byte, in that order, and returns 8 +   *)
(* the length of the channel encoding; the encoding appears once, right    *)
(* after the foreground action byte.                                       *)
(***************************************************************************)
C1_FadeWithLayout ==
    \A i \in CallsOf("channel_fade_with") :
        LET h == hist[i]
            a == h.a
            e == Enc(a.channel)
            magic == lor_get_channel_magic(a.channel)
        IN  /\ h.msg = <<a.unit, BitOr(magic, a.action)>> \o e \o
                       <<LOR_MAGIC_AND, BitOr(magic, LOR_ACTION_CHANNEL_FADE),
                         a.from, a.to, a.duration \div 256, a.duration % 256>>
            /\ h.n = 8 + Len(e)
            /\ Bytes(buf, h.pos, h.n) = h.msg

C1_Witness ==
    \E i \in CallsOf("channel_fade_with") :
        /\ IsMask16(hist[i].a.channel)
        /\ Chained(hist[i].a.channel)
        /\ hist[i].a.from # hist[i].a.to
        /\ hist[i].pos > 0

(***************************************************************************)
(* C2: no call writes more than 13 bytes or returns more than 13: every    *)
(* returned length is at most 13, every call stays inside the room the     *)
(* caller kept, and no byte 13 or more places after a call's cursor        *)
(* is changed by it.                                                       *)
(***************************************************************************)
C2_AtMost13 ==
    \A i \in Calls :
        /\ hist[i].n <= 13
        /\ hist[i].pos + hist[i].n <= BufLen
        /\ \A j \in 0 .. BufLen - 1 :
               (i = Len(hist) /\ j >= hist[i].pos + 13) => buf[j] = InitBuf[j]

C2_Witness ==
    \E i \in CallsOf("channel_fade_with") :
        /\ IsMask16(hist[i].a.channel)
        /\ Chained(hist[i].a.channel)
        /\ hist[i].pos = BufLen - 13
        /\ i = Len(hist)

(***************************************************************************)
(* C3 as stated: the largest message is 13 bytes, attained by              *)
(* write_channel_fade_with with a chained 16-bit mask.                     *)
(***************************************************************************)
C3_Original ==
    \A i \in Calls :
        /\ hist[i].n <= 13
        /\ (hist[i].op = "channel_fade_with" /\ IsMask16(hist[i].a.channel)
              /\ Chained(hist[i].a.channel)) => hist[i].n = 13

(***************************************************************************)
(* C3 amended: the largest message is 11 bytes, attained by                *)
(* write_channel_fade_with with a chained 16-bit mask: that call returns   *)
(* 11 and no call returns more.                                            *)
(***************************************************************************)
C3_Max11 ==
    \A i \in Calls :
        /\ hist[i].n <= 11
        /\ (hist[i].op = "channel_fade_with" /\ IsMask16(hist[i].a.channel)
              /\ Chained(hist[i].a.channel)) => hist[i].n = 11

C3_Witness ==
    \E i \in CallsOf("channel_fade_with") :
        /\ IsMask16(hist[i].a.channel)
        /\ Chained(hist[i].a.channel)
        /\ hist[i].n = 11
        /\ Len(hist[i].msg) = 11

(***************************************************************************)
(* C4: write_channel returns 1 for SingleId or Mask8 without chain, 2 for  *)
(* SingleId or Mask8 with chain and for Mask16 without chain, 3 for Mask16 *)
(* with chain; with chain_index > 0 the first byte is chain_index, with    *)
(* chain_index = 0 the message holds the variant's bytes only.             *)
(***************************************************************************)
C4_ChannelLength ==
    \A i \in CallsOf("channel") :
        LET h == hist[i]
            ch == h.a.channel
            width == IF IsMask16(ch) THEN 2 ELSE 1
        IN  /\ h.n = (IF Chained(ch) THEN 1 ELSE 0) + width
            /\ h.n \in 1 .. 3
            /\ Len(h.msg) = h.n
            /\ Chained(ch) => h.msg[1] = ch.chain_index
            /\ ~Chained(ch) => h.n = width

C4_Witness ==
    /\ \E i \in CallsOf("channel") :
           IsMask16(hist[i].a.channel) /\ Chained(hist[i].a.channel) /\ hist[i].n = 3
    /\ \E i \in CallsOf("channel") :
           hist[i].a.channel.type = "LOR_CHANNEL_ID" /\ ~Chained(hist[i].a.channel)
           /\ hist[i].n = 1

(***************************************************************************)
(* C5: after the optional chain byte write_channel emits, for SingleId,    *)
(* one byte: the channel-id tag bits OR the ID; for Mask8 one byte: the    *)
(* mask; for Mask16 two bytes: the high 8 bits of the mask, then the low 8 *)
(* bits, for every 16-bit mask.                                            *)
(***************************************************************************)
Payload(ch) ==
    CASE ch.type = "LOR_CHANNEL_ID" -> <<BitOr(LOR_MAGIC_CHANNEL_ID_MASK, ch.bits)>>
      [] ch.type = "LOR_CHANNEL_MASK8" -> <<ch.bits>>
      [] ch.type = "LOR_CHANNEL_MASK16" -> <<ch.bits \div 256, ch.bits % 256>>

C5_ChannelPayload ==
    /\ \A i \in CallsOf("channel") :
           LET h == hist[i]
               ch == h.a.channel
           IN  /\ h.msg = (IF Chained(ch) THEN <<ch.chain_index>> ELSE <<>>) \o Payload(ch)
               /\ Bytes(buf, h.pos, h.n) = h.msg
    /\ hist = <<>> =>
           \A m \in 0 .. 65535 :
               Enc([type |-> "LOR_CHANNEL_MASK16", bits |-> m, chain_index |-> 0])
                   = <<m \div 256, m % 256>>

C5_Witness ==
    \E i \in CallsOf("channel") :
        /\ IsMask16(hist[i].a.channel)
        /\ Chained(hist[i].a.channel)
        /\ hist[i].a.channel.bits = 258
        /\ hist[i].msg = <<hist[i].a.channel.chain_index, 1, 2>>

(***************************************************************************)
(* C6: write_channel_fade writes unit, (channel_magic | FADE), from, to,   *)
(* duration high byte, duration low byte and then the channel encoding as  *)
(* the last bytes, and returns 6 + the length of the channel encoding.     *)
(***************************************************************************)
C6_FadeLayout ==
    \A i \in CallsOf("channel_fade") :
        LET h == hist[i]
            a == h.a
            e == Enc(a.channel)
            magic == lor_get_channel_magic(a.channel)
        IN  /\ h.msg = <<a.unit, BitOr(magic, LOR_ACTION_CHANNEL_FADE), a.from, a.to,
                         a.duration \div 256, a.duration % 256>> \o e
            /\ h.n = 6 + Len(e)
            /\ Bytes(buf, h.pos, h.n) = h.msg

C6_Witness ==
    \E i \in CallsOf("channel_fade") :
        /\ IsMask16(hist[i].a.channel)
        /\ Chained(hist[i].a.channel)
        /\ hist[i].a.from # hist[i].a.to
        /\ hist[i].n = 9

(***************************************************************************)
(* C7: write_duration writes exactly two bytes, high byte first, and       *)
(* returns 2; first * 256 + second is the tick count, for every 16-bit     *)
(* tick count (0x0102 is written as 0x01, 0x02).                           *)
(***************************************************************************)
C7_DurationBigEndian ==
    /\ \A i \in CallsOf("duration") :
           LET h == hist[i]
           IN  /\ h.n = 2
               /\ Len(h.msg) = 2
               /\ h.msg[1] * 256 + h.msg[2] = h.a.duration
               /\ h.msg[1] = h.a.duration \div 256
               /\ Bytes(buf, h.pos, 2) = h.msg
    /\ hist = <<>> =>
           \A d \in 0 .. 65535 :
               LET e == EncDuration(d)
               IN  Len(e) = 2 /\ e[1] \in 0 .. 255 /\ e[2] \in 0 .. 255
                   /\ e[1] * 256 + e[2] = d

C7_Witness ==
    \E i \in CallsOf("duration") :
        hist[i].a.duration = 258 /\ hist[i].msg = <<1, 2>> /\ hist[i].n = 2

(***************************************************************************)
(* C8: write_unit_action writes exactly 2 bytes, the unit then the action, *)
(* and returns 2.                                                          *)
(***************************************************************************)
C8_UnitAction ==
    \A i \in CallsOf("unit_action") :
        /\ hist[i].n = 2
        /\ hist[i].msg = <<hist[i].a.unit, hist[i].a.action>>
        /\ Bytes(buf, hist[i].pos, 2) = hist[i].msg

C8_Witness ==
    \E i \in CallsOf("unit_action") :
        hist[i].a.unit = LOR_UNIT_ID_BROADCAST /\ hist[i].msg[2] = hist[i].a.action
        /\ hist[i].pos > 0

C10_Frame ==
    /\ cursor = SumN(Len(hist))
    /\ \A i \in Calls : hist[i].pos = SumN(i - 1) /\ Len(hist[i].msg) = hist[i].n
    /\ Bytes(buf, 0, cursor) = Concat(Len(hist))
    /\ \A j \in 0 .. BufLen - 1 : j >= cursor => buf[j] = InitBuf[j]

C10_Witness ==
    /\ Len(hist) >= 3
    /\ \E i \in Calls : hist[i].op = "unit_action" /\ i < Len(hist)
    /\ hist[Len(hist)].op \in Composers
    /\ hist[Len(hist)].n >= 6

====
